---- MODULE Spec2Model ----
(***************************************************************************)
(* person-service: the HTTP boundary (handler), the service (enrichment    *)
(* fan-out/fan-in and error translation) and the store (single-statement   *)
(* SQL operations on the table people), as one state machine.              *)
(*                                                                         *)
(* A Go error is the chain of its messages, outermost first: fmt.Errorf    *)
(* with %w puts a message in front of the chain, errors.Is walks it.       *)
(* A *string is a record [valid, str]; time.Time is a natural number, the  *)
(* zero time being 0.                                                      *)
(***************************************************************************)
EXTENDS Integers, Sequences, FiniteSets, TLC

\* ------------------------------------------------------------- bounds
\* Requests served concurrently.
NumClients == 2
\* Values the id sequence of the table may hand out.
MaxId == 2
\* Values CURRENT_TIMESTAMP takes.
MaxClock == 2
\* Rows of the table a list request reads.
MaxRows == 2

Clients == 1..NumClients

\* ------------------------------------------------------------- errors
Nil == <<>>
ErrNotFound == <<"not found">>
\* pgx.ErrNoRows, returned by QueryRow(...).Scan when no row matches.
ErrNoRows == <<"no rows in result set">>
\* The statement did not reach the database (pool, network, context).
ErrConn == <<"connection refused">>
\* The database refused the row: a CHECK or a length limit of the table.
ErrConstraint == <<"violates check constraint">>
ErrValidation == <<"name and surname are required">>

\* fmt.Errorf(msg + ": %w", err)
Wrap(msg, err) == <<msg>> \o err

\* errors.Is(err, target) for a sentinel target: some suffix of the chain is it.
ErrorsIs(err, target) ==
    \E i \in 1..Len(err) : SubSeq(err, i, Len(err)) = target

\* ------------------------------------------------------------- domain
NilStr == [valid |-> FALSE, str |-> ""]
Ptr(s) == [valid |-> TRUE, str |-> s]

\* The zero value of domain.Person.
ZeroPerson ==
    [ID |-> 0, Name |-> "", Surname |-> "", Patronymic |-> NilStr, Age |-> 0,
     Gender |-> "", Nationality |-> "", CreatedAt |-> 0]

\* ------------------------------------------------------------- table
NameMaxLen == 50
SurnameMaxLen == 100
PatronymicMaxLen == 100
AgeMax == 120
NationalityMaxLen == 100
GenderMaxLen == 50
GenderEnum == {"male", "female", "other"}

\* The column constraints of CREATE TABLE people on the values the store
\* binds: Go strings and ints are never NULL, so NOT NULL holds of every
\* bound name and surname, the empty string included.
TableAccepts(p) ==
    /\ Len(p.Name) <= NameMaxLen
    /\ Len(p.Surname) <= SurnameMaxLen
    /\ (p.Patronymic.valid => Len(p.Patronymic.str) <= PatronymicMaxLen)
    /\ p.Age >= 0 /\ p.Age <= AgeMax
    /\ Len(p.Gender) <= GenderMaxLen /\ p.Gender \in GenderEnum
    /\ Len(p.Nationality) <= NationalityMaxLen

\* A row of people as SELECT id, name, ..., created_at scans it into a Person.
RowToPerson(id, row) ==
    [ID |-> id, Name |-> row.name, Surname |-> row.surname,
     Patronymic |-> row.patronymic, Age |-> row.age, Gender |-> row.gender,
     Nationality |-> row.nationality, CreatedAt |-> row.created_at]

\* The six columns INSERT and UPDATE bind from a Person.
BoundColumns(p, created) ==
    [name |-> p.Name, surname |-> p.Surname, patronymic |-> p.Patronymic,
     age |-> p.Age, gender |-> p.Gender, nationality |-> p.Nationality,
     created_at |-> created]

\* ------------------------------------------------------------- store
\* Variant of RepoCreate: the INSERT binds NULL for patronymic.
RepoCreateDropsPatronymic(db, seq, clock, p, fail) ==
    IF fail THEN [people |-> db, nextId |-> seq, id |-> 0, err |-> ErrConn]
    ELSE IF ~TableAccepts(p)
         THEN [people |-> db, nextId |-> seq + 1, id |-> 0, err |-> ErrConstraint]
    ELSE [people |-> [i \in DOMAIN db \cup {seq} |->
                        IF i = seq
                        THEN BoundColumns([p EXCEPT !.Patronymic = NilStr], clock)
                        ELSE db[i]],
          nextId |-> seq + 1, id |-> seq, err |-> Nil]

\* Variant of RepoCreate: the id is the lowest one that no row has.
RepoCreateReusesFreeId(db, seq, clock, p, fail) ==
    LET free == CHOOSE i \in 1..(seq + 1) :
                    /\ i \notin DOMAIN db
                    /\ \A j \in 1..(i - 1) : j \in DOMAIN db
    IN IF fail THEN [people |-> db, nextId |-> seq, id |-> 0, err |-> ErrConn]
       ELSE IF ~TableAccepts(p)
            THEN [people |-> db, nextId |-> seq + 1, id |-> 0, err |-> ErrConstraint]
       ELSE [people |-> [i \in DOMAIN db \cup {free} |->
                           IF i = free THEN BoundColumns(p, clock) ELSE db[i]],
             nextId |-> seq + 1, id |-> free, err |-> Nil]

\* Variant of RepoCreate: a row the table refuses is left in it.
RepoCreateLeavesRefusedRow(db, seq, clock, p, fail) ==
    IF fail THEN [people |-> db, nextId |-> seq, id |-> 0, err |-> ErrConn]
    ELSE [people |-> [i \in DOMAIN db \cup {seq} |->
                        IF i = seq THEN BoundColumns(p, clock) ELSE db[i]],
          nextId |-> seq + 1, id |-> IF TableAccepts(p) THEN seq ELSE 0,
          err |-> IF TableAccepts(p) THEN Nil ELSE ErrConstraint]

\* PersonRepository.Create: INSERT ... RETURNING id. The sequence value is
\* drawn before the row is checked, so a refused row still consumes an id.
RepoCreate(db, seq, clock, p, fail) ==
    IF fail THEN [people |-> db, nextId |-> seq, id |-> 0, err |-> ErrConn]
    ELSE IF ~TableAccepts(p)
         THEN [people |-> db, nextId |-> seq + 1, id |-> 0, err |-> ErrConstraint]
    ELSE [people |-> [i \in DOMAIN db \cup {seq} |->
                        IF i = seq THEN BoundColumns(p, clock) ELSE db[i]],
          nextId |-> seq + 1, id |-> seq, err |-> Nil]

\* PersonRepository.GetById
RepoGetById(db, id, fail) ==
    LET scanErr == IF fail THEN ErrConn
                   ELSE IF id \notin DOMAIN db THEN ErrNoRows ELSE Nil
    IN IF scanErr # Nil
       THEN IF ErrorsIs(scanErr, ErrNoRows)
            THEN [person |-> ZeroPerson, err |-> ErrNotFound]
            ELSE [person |-> ZeroPerson, err |-> Wrap("failed to get person", scanErr)]
       ELSE [person |-> RowToPerson(id, db[id]), err |-> Nil]

\* Variant of RepoUpdate: the statement writes the row also when no row has the id.
RepoUpdateUpserts(db, id, p, fail) ==
    IF fail THEN [people |-> db, err |-> ErrConn]
    ELSE IF ~TableAccepts(p) THEN [people |-> db, err |-> ErrConstraint]
    ELSE [people |-> [i \in DOMAIN db \cup {id} |->
                        IF i = id
                        THEN BoundColumns(p, IF id \in DOMAIN db
                                             THEN db[id].created_at ELSE 1)
                        ELSE db[i]],
          err |-> IF id \in DOMAIN db THEN Nil ELSE ErrNotFound]

\* Variant of RepoUpdate: the statement also sets created_at, to a later time.
RepoUpdateStampsCreatedAt(db, id, p, fail) ==
    LET rowsAffected == IF id \in DOMAIN db THEN 1 ELSE 0
        execErr == IF fail THEN ErrConn
                   ELSE IF rowsAffected = 1 /\ ~TableAccepts(p) THEN ErrConstraint
                   ELSE Nil
    IN IF execErr # Nil THEN [people |-> db, err |-> execErr]
       ELSE IF rowsAffected = 0 THEN [people |-> db, err |-> ErrNotFound]
       ELSE [people |-> [db EXCEPT ![id] = BoundColumns(p, db[id].created_at + 1)],
             err |-> Nil]

\* PersonRepository.Update: UPDATE ... WHERE id = $7. The constraints are
\* checked on the rows the statement touches, so none is checked when no row
\* has the id.
RepoUpdate(db, id, p, fail) ==
    LET rowsAffected == IF id \in DOMAIN db THEN 1 ELSE 0
        execErr == IF fail THEN ErrConn
                   ELSE IF rowsAffected = 1 /\ ~TableAccepts(p) THEN ErrConstraint
                   ELSE Nil
    IN IF execErr # Nil THEN [people |-> db, err |-> execErr]
       ELSE IF rowsAffected = 0 THEN [people |-> db, err |-> ErrNotFound]
       ELSE [people |-> [db EXCEPT ![id] = BoundColumns(p, db[id].created_at)],
             err |-> Nil]

\* Variant of RepoDelete: RowsAffected() is not looked at.
RepoDeleteIgnoresRowsAffected(db, id, fail) ==
    IF fail THEN [people |-> db, err |-> ErrConn]
    ELSE [people |-> [i \in DOMAIN db \ {id} |-> db[i]], err |-> Nil]

\* PersonRepository.Delete: DELETE ... WHERE id = $1.
RepoDelete(db, id, fail) ==
    LET rowsAffected == IF id \in DOMAIN db THEN 1 ELSE 0
    IN IF fail THEN [people |-> db, err |-> ErrConn]
       ELSE IF rowsAffected = 0 THEN [people |-> db, err |-> ErrNotFound]
       ELSE [people |-> [i \in DOMAIN db \ {id} |-> db[i]], err |-> Nil]

\* ------------------------------------------------------------- service
\* In the result of a service method, calls is the number of calls of the
\* store it made.
\* PersonService.GetById
ServiceGetById(db, id, fail) ==
    LET r == RepoGetById(db, id, fail)
    IN IF r.err # Nil
       THEN IF ErrorsIs(r.err, ErrNotFound)
            THEN [person |-> ZeroPerson, err |-> r.err, calls |-> 1]
            ELSE [person |-> ZeroPerson, err |-> Wrap("failed to get person", r.err),
                  calls |-> 1]
       ELSE [person |-> r.person, err |-> Nil, calls |-> 1]

\* PersonService.Update
ServiceUpdate(db, id, p, fail) ==
    LET r == RepoUpdate(db, id, p, fail)
    IN IF r.err # Nil
       THEN IF ErrorsIs(r.err, ErrNotFound)
            THEN [people |-> r.people, err |-> r.err, calls |-> 1]
            ELSE [people |-> r.people, err |-> Wrap("failed to update person", r.err),
                  calls |-> 1]
       ELSE [people |-> r.people, err |-> Nil, calls |-> 1]

\* Variant of ServiceDelete: every store error is replaced by a new error.
ServiceDeleteFlattens(db, id, fail) ==
    LET r == RepoDelete(db, id, fail)
    IN IF r.err # Nil
       THEN [people |-> r.people, err |-> <<"failed to delete person", "flattened">>,
             calls |-> 1]
       ELSE [people |-> r.people, err |-> Nil, calls |-> 1]

\* PersonService.Delete
ServiceDelete(db, id, fail) ==
    LET r == RepoDelete(db, id, fail)
    IN IF r.err # Nil
       THEN IF ErrorsIs(r.err, ErrNotFound)
            THEN [people |-> r.people, err |-> r.err, calls |-> 1]
            ELSE [people |-> r.people, err |-> Wrap("failed to delete person", r.err),
                  calls |-> 1]
       ELSE [people |-> r.people, err |-> Nil, calls |-> 1]

\* Variant of CreateValidationFails: the surname is not looked at.
CreateValidationNameOnly(p) == p.Name = ""

\* PersonService.Create, the validation at its head.
CreateValidationFails(p) == p.Name = "" \/ p.Surname = ""

\* Variant of ServiceCreateStore: a failed INSERT is attempted once more.
ServiceCreateStoreRetries(db, seq, clock, p, fail) ==
    LET r == RepoCreate(db, seq, clock, p, fail)
        again == RepoCreate(r.people, r.nextId, clock, p, fail)
    IN IF r.err # Nil
       THEN IF again.err # Nil
            THEN [people |-> again.people, nextId |-> again.nextId, id |-> 0,
                  err |-> Wrap("failed to create person", again.err), calls |-> 2]
            ELSE [people |-> again.people, nextId |-> again.nextId, id |-> again.id,
                  err |-> Nil, calls |-> 2]
       ELSE [people |-> r.people, nextId |-> r.nextId, id |-> r.id, err |-> Nil,
             calls |-> 1]

\* PersonService.Create, after wg.Wait(): the store call and its translation.
ServiceCreateStore(db, seq, clock, p, fail) ==
    LET r == RepoCreate(db, seq, clock, p, fail)
    IN IF r.err # Nil
       THEN [people |-> r.people, nextId |-> r.nextId, id |-> 0,
             err |-> Wrap("failed to create person", r.err), calls |-> 1]
       ELSE [people |-> r.people, nextId |-> r.nextId, id |-> r.id, err |-> Nil,
             calls |-> 1]

\* ------------------------------------------------------------- enrichment
\* What an outbound GET can come back with: no response (transport error or
\* the client's 5 s timeout), a status other than 200, a body that cannot be
\* read, a body that is not the expected JSON, or the expected JSON.
ReplyKinds == {"transport_error", "bad_status", "read_error", "bad_json", "ok"}

AgifyReplies ==
    {[kind |-> k, age |-> 0] : k \in ReplyKinds \ {"ok"}}
        \cup {[kind |-> "ok", age |-> 30]}
GenderizeReplies ==
    {[kind |-> k, gender |-> ""] : k \in ReplyKinds \ {"ok"}}
        \cup {[kind |-> "ok", gender |-> "male"]}
\* country is the list of country_id values of the reply.
NationalizeReplies ==
    {[kind |-> k, country |-> <<>>] : k \in ReplyKinds \ {"ok"}}
        \cup {[kind |-> "ok", country |-> <<>>],
              [kind |-> "ok", country |-> <<"US", "GB">>]}

\* The error of a lookup whose reply is not a readable 200, Nil otherwise.
ReplyError(service, h) ==
    IF h.kind = "transport_error" THEN <<service \o " request failed", "transport">>
    ELSE IF h.kind = "bad_status" THEN <<service \o " returned status">>
    ELSE IF h.kind = "read_error" THEN <<"failed to read " \o service \o " response", "io">>
    ELSE IF h.kind = "bad_json" THEN <<"failed to parse " \o service \o " response", "json">>
    ELSE Nil

\* In the result of a lookup, gets is the number of outbound requests it
\* issued.
\* EnrichmentClient.GetAge
GetAge(h) ==
    IF ReplyError("agify", h) # Nil
    THEN [val |-> 0, err |-> ReplyError("agify", h), gets |-> 1]
    ELSE [val |-> h.age, err |-> Nil, gets |-> 1]

\* EnrichmentClient.GetGender
GetGender(h) ==
    IF ReplyError("genderize", h) # Nil
    THEN [val |-> "", err |-> ReplyError("genderize", h), gets |-> 1]
    ELSE [val |-> h.gender, err |-> Nil, gets |-> 1]

\* EnrichmentClient.GetNationality
GetNationality(h) ==
    IF ReplyError("nationalize", h) # Nil
    THEN [val |-> "", err |-> ReplyError("nationalize", h), gets |-> 1]
    ELSE IF Len(h.country) = 0 THEN [val |-> "", err |-> Nil, gets |-> 1]
    ELSE [val |-> h.country[1], err |-> Nil, gets |-> 1]

\* ------------------------------------------------------------- requests
\* The {id} of a path: a decimal number, or text strconv.ParseInt refuses.
\* MaxId + 1 is an id the sequence never reaches.
IdParams ==
    {[numeric |-> TRUE, n |-> i] : i \in 1..(MaxId + 1)}
        \cup {[numeric |-> FALSE, n |-> 0]}

\* strconv.ParseInt(c.Param("id"), 10, 64)
ParseInt(param) ==
    IF param.numeric THEN [v |-> param.n, err |-> Nil]
    ELSE [v |-> 0, err |-> <<"invalid syntax">>]

\* Bodies of POST /api/person; wellformed is FALSE for text that is not a
\* JSON object of strings. An omitted key and an empty string decode alike.
\* The last body is the one of a second person.
CreateBodies ==
    [wellformed : BOOLEAN, name : {"", "Anna"}, surname : {"", "Lee"},
     patronymic : {"", "Ivanovna"}]
        \cup {[wellformed |-> TRUE, name |-> "Boris", surname |-> "Orlov",
               patronymic |-> ""]}

\* ShouldBindJSON into CreatePersonRequest: name and surname are
\* binding:"required", which refuses the zero value.
BindCreate(body) == body.wellformed /\ body.name # "" /\ body.surname # ""

\* Bodies of PUT /api/person/{id}: every key supplied; name, patronymic or
\* gender alone omitted; no key supplied; an age the table refuses. An
\* omitted key and a zero value decode alike.
FullUpdate ==
    [name |-> "Ivan", surname |-> "Petrov", patronymic |-> "Sergeevich",
     age |-> 41, gender |-> "female", nationality |-> "RU"]
UpdateBodies ==
    {FullUpdate,
     [FullUpdate EXCEPT !.name = ""],
     [FullUpdate EXCEPT !.patronymic = ""],
     [FullUpdate EXCEPT !.gender = ""],
     [name |-> "", surname |-> "", patronymic |-> "", age |-> 0, gender |-> "",
      nationality |-> ""],
     [FullUpdate EXCEPT !.age = AgeMax + 1]}

\* The three lookups of one Create: st is "none" before the goroutine is
\* started, "running" until it returns, "done" after its wg.Done(); gets
\* counts the outbound requests issued for it.
NoLookups ==
    [age |-> [st |-> "none", ok |-> FALSE, val |-> 0, gets |-> 0],
     gender |-> [st |-> "none", ok |-> FALSE, val |-> "", gets |-> 0],
     nationality |-> [st |-> "none", ok |-> FALSE, val |-> "", gets |-> 0]]
StartedLookups ==
    [age |-> [st |-> "running", ok |-> FALSE, val |-> 0, gets |-> 0],
     gender |-> [st |-> "running", ok |-> FALSE, val |-> "", gets |-> 0],
     nationality |-> [st |-> "running", ok |-> FALSE, val |-> "", gets |-> 0]]

\* ------------------------------------------------------------- integers
\* Go's int and strconv.Atoi, in IntWidth bits two's complement.
IntWidth == 15
MaxInt == 2^(IntWidth - 1) - 1
MinInt == -(2^(IntWidth - 1))

\* The value an int holds for the mathematical result x.
WrapInt(x) ==
    LET m == x % (2^IntWidth)
    IN IF m > MaxInt THEN m - 2^IntWidth ELSE m

\* ------------------------------------------------------------- text
UpperCase == "ABCDEFGHIJKLMNOPQRSTUVWXYZ"
LowerCase == "abcdefghijklmnopqrstuvwxyz"

\* The lower-case form of the one-character string ch.
ToLowerChar(ch) ==
    IF \E i \in 1..Len(UpperCase) : SubSeq(UpperCase, i, i) = ch
    THEN LET i == CHOOSE j \in 1..Len(UpperCase) : SubSeq(UpperCase, j, j) = ch
         IN SubSeq(LowerCase, i, i)
    ELSE ch

\* text LIKE pattern, letters compared without regard to case (ILIKE): in the
\* pattern % stands for any run of characters, _ for any one character, and a
\* backslash takes the next character literally.
RECURSIVE ILike(_, _)
ILike(text, pattern) ==
    IF pattern = "" THEN text = ""
    ELSE LET ph == SubSeq(pattern, 1, 1)
             pt == SubSeq(pattern, 2, Len(pattern))
         IN IF ph = "%"
            THEN ILike(text, pt)
                 \/ (text # "" /\ ILike(SubSeq(text, 2, Len(text)), pattern))
            ELSE IF ph = "_"
            THEN text # "" /\ ILike(SubSeq(text, 2, Len(text)), pt)
            ELSE IF ph = "\\" /\ pt # ""
            THEN /\ text # ""
                 /\ ToLowerChar(SubSeq(text, 1, 1)) = ToLowerChar(SubSeq(pt, 1, 1))
                 /\ ILike(SubSeq(text, 2, Len(text)), SubSeq(pt, 2, Len(pt)))
            ELSE /\ text # ""
                 /\ ToLowerChar(SubSeq(text, 1, 1)) = ToLowerChar(ph)
                 /\ ILike(SubSeq(text, 2, Len(text)), pt)

\* ------------------------------------------------------------- slices
\* A value of type interface{}: its dynamic type and the value of that type.
NilArg == [typ |-> "nil", s |-> "", n |-> 0]
TextArg(s) == [typ |-> "string", s |-> s, n |-> 0]
IntArg(n) == [typ |-> "int", s |-> "", n |-> n]

\* A slice []interface{}: the backing array it points into (arr, as long as
\* the capacity; id tells backing arrays apart) and its length. The nil slice.
NilSlice == [id |-> 0, arr |-> <<>>, len |-> 0]

\* The elements a slice header reads.
Elements(sl) == SubSeq(sl.arr, 1, sl.len)

\* append(sl, vals...): in place when the capacity suffices, so that every
\* slice of the same backing array sees the write; otherwise into a new
\* array of twice the capacity, or of the length needed when that is more.
GoAppend(sl, vals) ==
    LET cap == Len(sl.arr)
        newLen == sl.len + Len(vals)
        newCap == IF newLen > 2 * cap THEN newLen ELSE 2 * cap
    IN IF newLen <= cap
       THEN [id |-> sl.id,
             arr |-> [i \in 1..cap |->
                        IF i > sl.len /\ i <= newLen THEN vals[i - sl.len]
                        ELSE sl.arr[i]],
             len |-> newLen]
       ELSE [id |-> sl.id + 1,
             arr |-> [i \in 1..newCap |->
                        IF i <= sl.len THEN sl.arr[i]
                        ELSE IF i <= newLen THEN vals[i - sl.len]
                        ELSE NilArg],
             len |-> newLen]

\* ------------------------------------------------------------- store, GetAll
\* The keys PersonRepository.GetAll looks up in filters, in its order.
FilterKeys == <<"name", "surname", "age", "gender", "nationality">>

\* The condition GetAll adds for key k with placeholder $argIndex, and the
\* argument it binds to it.
ConditionOf(k, argIndex) ==
    [column |-> k,
     op |-> IF k \in {"age", "gender"} THEN "=" ELSE "ILIKE",
     param |-> argIndex]
ArgumentOf(k, v) ==
    IF k \in {"age", "gender"} THEN v ELSE TextArg("%" \o v.s \o "%")

\* The five "if v, ok := filters[k]; ok" blocks, from the keys still to be
\* looked at.
RECURSIVE BuildConditions(_, _, _)
BuildConditions(keys, filters, acc) ==
    IF keys = <<>> THEN acc
    ELSE LET k == Head(keys)
         IN IF k \in DOMAIN filters
            THEN BuildConditions(
                     Tail(keys), filters,
                     [conditions |-> Append(acc.conditions,
                                            ConditionOf(k, acc.argIndex)),
                      args |-> GoAppend(acc.args, <<ArgumentOf(k, filters[k])>>),
                      argIndex |-> acc.argIndex + 1])
            ELSE BuildConditions(Tail(keys), filters, acc)

\* Variant of RepoGetAllBuild: countArgs is taken after limit and offset
\* were appended.
RepoGetAllBuildCountsAfterAppend(filters, limit, offset) ==
    LET b == BuildConditions(FilterKeys, filters,
                             [conditions |-> <<>>, args |-> NilSlice, argIndex |-> 1])
        args == GoAppend(b.args, <<IntArg(limit), IntArg(offset)>>)
    IN [countConditions |-> b.conditions,
        countArgs |-> Elements(args),
        conditions |-> b.conditions,
        args |-> Elements(args),
        limitParam |-> b.argIndex,
        offsetParam |-> b.argIndex + 1]

\* PersonRepository.GetAll up to the execution of the queries: the WHERE
\* conditions of the count query and of the selection query, and the
\* arguments of each as they are when the queries are executed. countArgs is
\* a copy of the slice header args made before limit and offset are appended:
\* it keeps its length and reads the backing array it shares.
RepoGetAllBuild(filters, limit, offset) ==
    LET b == BuildConditions(FilterKeys, filters,
                             [conditions |-> <<>>, args |-> NilSlice, argIndex |-> 1])
        countArgs == b.args
        args == GoAppend(b.args, <<IntArg(limit), IntArg(offset)>>)
        backing == IF args.id = countArgs.id THEN args.arr ELSE countArgs.arr
    IN [countConditions |-> b.conditions,
        countArgs |-> Elements([countArgs EXCEPT !.arr = backing]),
        conditions |-> b.conditions,
        args |-> Elements(args),
        limitParam |-> b.argIndex,
        offsetParam |-> b.argIndex + 1]

\* The value of the column a condition names, as an interface{} value.
ColumnOf(row, column) ==
    IF column = "age" THEN IntArg(row.age)
    ELSE IF column = "name" THEN TextArg(row.name)
    ELSE IF column = "surname" THEN TextArg(row.surname)
    ELSE IF column = "gender" THEN TextArg(row.gender)
    ELSE TextArg(row.nationality)

\* The row satisfies the conditions joined by AND, with the arguments args.
RowMatches(row, conditions, args) ==
    \A i \in 1..Len(conditions) :
       LET cond == conditions[i]
           arg == args[cond.param]
           col == ColumnOf(row, cond.column)
       IN /\ arg.typ = col.typ
          /\ IF cond.op = "ILIKE" THEN ILike(col.s, arg.s)
             ELSE col.s = arg.s /\ col.n = arg.n

ErrNegativeOffset == <<"OFFSET must not be negative">>
ErrScan == <<"cannot scan">>

\* Variant of RepoGetAllCount: COUNT(*) of the whole table.
RepoGetAllCountUnfiltered(db, q, fail) ==
    IF fail
    THEN [total |-> 0, err |-> Wrap("failed to count people", ErrConn)]
    ELSE [total |-> Cardinality(DOMAIN db), err |-> Nil]

\* PersonRepository.GetAll, the count query.
RepoGetAllCount(db, q, fail) ==
    IF fail
    THEN [total |-> 0, err |-> Wrap("failed to count people", ErrConn)]
    ELSE [total |-> Cardinality({id \in DOMAIN db :
                                    RowMatches(db[id], q.countConditions, q.countArgs)}),
          err |-> Nil]

\* The ids of the rows the selection query's WHERE keeps.
Selected(db, q) == {id \in DOMAIN db : RowMatches(db[id], q.conditions, q.args)}

\* ORDER BY created_at DESC: the orders the database may return the ids in.
\* Rows of equal created_at come in any order.
OrdersByCreatedAtDesc(db, ids) ==
    {o \in [1..Cardinality(ids) -> ids] :
        /\ \A i, j \in 1..Cardinality(ids) : i # j => o[i] # o[j]
        /\ \A i, j \in 1..Cardinality(ids) :
             i < j => db[o[i]].created_at >= db[o[j]].created_at}

\* LIMIT limit OFFSET offset of the sequence s.
Window(s, limit, offset) ==
    IF offset >= Len(s) \/ limit <= 0 THEN <<>>
    ELSE SubSeq(s, offset + 1,
                IF offset + limit < Len(s) THEN offset + limit ELSE Len(s))

\* How the selection can fail: the query is not executed, a row is not
\* scanned, or the rows end with an error.
SelectFailures == {"none", "query", "scan", "rows"}

\* Variant of RepoGetAllSelect: after an error the rows scanned so far and
\* the total are returned with it.
RepoGetAllSelectPartial(db, q, total, order, fail) ==
    LET limit == q.args[q.limitParam].n
        offset == q.args[q.offsetParam].n
        execErr == IF fail = "query" THEN ErrConn
                   ELSE IF offset < 0 \/ limit < 0 THEN ErrNegativeOffset
                   ELSE Nil
        window == Window(order, limit, offset)
        people == [i \in 1..Len(window) |-> RowToPerson(window[i], db[window[i]])]
    IN IF execErr # Nil
       THEN [people |-> <<>>, total |-> total,
             err |-> Wrap("failed to get people", execErr)]
       ELSE IF fail = "scan" /\ window # <<>>
       THEN [people |-> SubSeq(people, 1, Len(people) - 1), total |-> total,
             err |-> Wrap("failed to scan person", ErrScan)]
       ELSE IF fail = "rows"
       THEN [people |-> people, total |-> total, err |-> Wrap("rows error", ErrConn)]
       ELSE [people |-> people, total |-> total, err |-> Nil]

\* Variant of RepoGetAllSelect: the total returned is the number of rows the
\* selection query's WHERE keeps when it runs.
RepoGetAllSelectRecounts(db, q, total, order, fail) ==
    LET limit == q.args[q.limitParam].n
        offset == q.args[q.offsetParam].n
        execErr == IF fail = "query" THEN ErrConn
                   ELSE IF offset < 0 \/ limit < 0 THEN ErrNegativeOffset
                   ELSE Nil
        window == Window(order, limit, offset)
        people == [i \in 1..Len(window) |-> RowToPerson(window[i], db[window[i]])]
    IN IF execErr # Nil
       THEN [people |-> <<>>, total |-> 0,
             err |-> Wrap("failed to get people", execErr)]
       ELSE IF fail = "scan" /\ window # <<>>
       THEN [people |-> <<>>, total |-> 0,
             err |-> Wrap("failed to scan person", ErrScan)]
       ELSE IF fail = "rows"
       THEN [people |-> <<>>, total |-> 0, err |-> Wrap("rows error", ErrConn)]
       ELSE [people |-> people, total |-> Cardinality(Selected(db, q)), err |-> Nil]

\* PersonRepository.GetAll, the selection query and the scan of its rows;
\* order is the order the database returns the selected rows in. A NULL
\* patronymic is scanned into a NullString and left nil in the Person.
RepoGetAllSelect(db, q, total, order, fail) ==
    LET limit == q.args[q.limitParam].n
        offset == q.args[q.offsetParam].n
        execErr == IF fail = "query" THEN ErrConn
                   ELSE IF offset < 0 \/ limit < 0 THEN ErrNegativeOffset
                   ELSE Nil
        window == Window(order, limit, offset)
        people == [i \in 1..Len(window) |-> RowToPerson(window[i], db[window[i]])]
    IN IF execErr # Nil
       THEN [people |-> <<>>, total |-> 0,
             err |-> Wrap("failed to get people", execErr)]
       ELSE IF fail = "scan" /\ window # <<>>
       THEN [people |-> <<>>, total |-> 0,
             err |-> Wrap("failed to scan person", ErrScan)]
       ELSE IF fail = "rows"
       THEN [people |-> <<>>, total |-> 0, err |-> Wrap("rows error", ErrConn)]
       ELSE [people |-> people, total |-> total, err |-> Nil]

\* ------------------------------------------------------------- service, GetAll
\* Variant of ServiceGetAllWindow: a page below 1 is left as it is.
ServiceGetAllWindowKeepsPage(page, pageSize) ==
    LET ps == IF pageSize < 1 THEN 10 ELSE pageSize
    IN [page |-> page, pageSize |-> ps, limit |-> ps,
        offset |-> WrapInt((page - 1) * ps)]

\* PersonService.GetAll: the normalisation of page and pageSize and the
\* limit and offset computed from them.
ServiceGetAllWindow(page, pageSize) ==
    LET p == IF page < 1 THEN 1 ELSE page
        ps == IF pageSize < 1 THEN 10 ELSE pageSize
    IN [page |-> p, pageSize |-> ps, limit |-> ps,
        offset |-> WrapInt((p - 1) * ps)]

\* PersonService.GetAll: what it returns for the result r of the store.
ServiceGetAllResult(r) ==
    IF r.err # Nil
    THEN [people |-> <<>>, total |-> 0, err |-> Wrap("failed to get people", r.err)]
    ELSE [people |-> r.people, total |-> r.total, err |-> Nil]

\* ------------------------------------------------------------- boundary, GetAll
paginationMaxPageSize == 100
paginationDefaultPageSize == 10
paginationDefaultPage == 1

\* A query value read as a number: not given, given as text Atoi refuses
\* (not a decimal number, or one out of the range of int), or a number.
NotGiven == [given |-> FALSE, numeric |-> FALSE, n |-> 0]
NotANumber == [given |-> TRUE, numeric |-> FALSE, n |-> 0]
Number(i) == [given |-> TRUE, numeric |-> TRUE, n |-> i]

\* strconv.Atoi(c.DefaultQuery(key, strconv.Itoa(default)))
AtoiDefaultQuery(param, default) ==
    IF ~param.given THEN [v |-> default, err |-> Nil]
    ELSE IF param.numeric THEN [v |-> param.n, err |-> Nil]
    ELSE [v |-> 0, err |-> <<"invalid syntax">>]

\* PersonHandler.GetAll: the page and the page size it passes on.
HandlerPage(param) ==
    LET r == AtoiDefaultQuery(param, paginationDefaultPage)
    IN IF r.err # Nil \/ r.v < 1 THEN paginationDefaultPage ELSE r.v

\* Variant of HandlerPageSize: a page size above the maximum is passed on.
HandlerPageSizeUncapped(param) ==
    LET r == AtoiDefaultQuery(param, paginationDefaultPageSize)
    IN IF r.err # Nil \/ r.v < 1 THEN paginationDefaultPageSize ELSE r.v

HandlerPageSize(param) ==
    LET r == AtoiDefaultQuery(param, paginationDefaultPageSize)
        pageSize == IF r.err # Nil \/ r.v < 1 THEN paginationDefaultPageSize ELSE r.v
    IN IF pageSize > paginationMaxPageSize THEN paginationMaxPageSize ELSE pageSize

\* PersonHandler.GetAll: the filters map built from the query. An empty
\* value is a key not given; age is given as text Atoi must accept.
HandlerFilters(query) ==
    LET texts == {k \in {"name", "surname", "gender", "nationality"} : query[k] # ""}
        keys == texts \cup (IF query.age.given /\ query.age.numeric
                            THEN {"age"} ELSE {})
    IN [k \in keys |-> IF k = "age" THEN IntArg(query.age.n) ELSE TextArg(query[k])]

\* The age of the query is text that is not a number: 400.
HandlerAgeInvalid(query) == query.age.given /\ ~query.age.numeric

\* Filter values of GET /api/people.
NoFilter ==
    [name |-> "", surname |-> "", age |-> NotGiven, gender |-> "", nationality |-> ""]
FilterQueries ==
    {NoFilter,
     [NoFilter EXCEPT !.name = "an"],
     [NoFilter EXCEPT !.name = "AN", !.gender = "male"],
     [NoFilter EXCEPT !.name = "_"],
     [NoFilter EXCEPT !.surname = "ORL"],
     [NoFilter EXCEPT !.age = Number(30)],
     [NoFilter EXCEPT !.age = Number(0), !.nationality = "%"],
     [NoFilter EXCEPT !.age = NotANumber],
     [NoFilter EXCEPT !.gender = "MALE"],
     [NoFilter EXCEPT !.nationality = "u"],
     [name |-> "n", surname |-> "e", age |-> Number(30), gender |-> "male",
      nationality |-> "us"]}

\* Queries of GET /api/people.
ListQueries ==
    {[page |-> p, pageSize |-> ps, filter |-> f] :
        p \in {NotGiven, NotANumber, Number(-1), Number(0), Number(2), Number(MaxInt)},
        ps \in {NotGiven, NotANumber, Number(-1), Number(0), Number(1), Number(2),
                Number(paginationMaxPageSize + 1)},
        f \in FilterQueries}

\* Calls of PersonServiceInterface.GetAll by a caller other than the boundary.
ServiceListCalls ==
    {[page |-> p, pageSize |-> ps, filters |-> f] :
        p \in {MinInt, 0, 1, 2, MaxInt},
        ps \in {MinInt, 0, 1, 2, MaxInt},
        f \in {<<>>, [k \in {"gender"} |-> TextArg("male")]}}

\* The GetAll in progress of a client: how it was entered, what the boundary
\* passed to the service, the window of the service, the queries of the
\* store, and the total the count query returned.
NoListing ==
    [via |-> "http", page |-> 0, pageSize |-> 0, filters |-> <<>>,
     window |-> [page |-> 0, pageSize |-> 0, limit |-> 0, offset |-> 0],
     query |-> [countConditions |-> <<>>, countArgs |-> <<>>, conditions |-> <<>>,
                args |-> <<>>, limitParam |-> 0, offsetParam |-> 0],
     total |-> 0, counted |-> {}]

\* The List part of an outcome: the GetAll as it was carried out (given is
\* what the service was called with), the records and the total the store
\* returned, data and total of the service's result, page and pageSize of
\* the response, and failed, which tells the query that failed.
NoList ==
    [given |-> NoListing, repoData |-> <<>>, repoTotal |-> 0, data |-> <<>>,
     total |-> 0, page |-> 0, pageSize |-> 0, failed |-> "none"]

\* The outcome of the request completed last. via is "http" for a request of
\* the boundary and "direct" for a call of PersonServiceInterface; status is
\* the HTTP status (0 for a direct call) and body the Person of the response;
\* called tells whether the service method ran, svcId and svcErr are what it
\* returned, record is the Person it was given as it is on return (for an
\* Update, when it succeeded), lookups the state of the lookups when the
\* store was called, storeCalls the number of calls of the store made, list
\* the List part of the outcome of a GetAll.
NoResponse ==
    [op |-> "none", via |-> "http", id |-> 0, status |-> 0, body |-> ZeroPerson,
     called |-> FALSE, svcId |-> 0, svcErr |-> Nil, record |-> ZeroPerson,
     lookups |-> NoLookups, storeCalls |-> 0, list |-> NoList]

\* A walk through the pages of the list: a client asks for page 1, 2, 3, ...
\* with the same filter and page_size until a page comes back empty. pages
\* holds, for each page got so far, the ids of its records in their order;
\* done tells that the last page got was empty.
NoWalk ==
    [active |-> FALSE, filter |-> NoFilter, pageSize |-> NotGiven, pages |-> <<>>,
     done |-> FALSE]

VARIABLES
    people,   \* the table: id -> row
    nextId,   \* the next value of the id sequence
    now,      \* CURRENT_TIMESTAMP as the last INSERT read it
    pc,       \* per client: "idle", "wait" inside PersonService.Create, or
              \* "select" between the two queries of PersonRepository.GetAll
    via,      \* per client: how the Create in progress was entered
    person,   \* per client: the *domain.Person of the Create in progress
    lookups,  \* per client: the three goroutines of the Create in progress
    wg,       \* per client: the sync.WaitGroup counter
    listing,  \* per client: the GetAll in progress
    last,     \* the outcome of the request completed last
    deleted,  \* history: the ids a Delete has removed
    walk      \* history: the pages a client walking through the list got

vars ==
    <<people, nextId, now, pc, via, person, lookups, wg, listing, last, deleted, walk>>

Init ==
    /\ people = <<>>
    /\ nextId = 1
    /\ now = 1
    /\ pc = [c \in Clients |-> "idle"]
    /\ via = [c \in Clients |-> "http"]
    /\ person = [c \in Clients |-> ZeroPerson]
    /\ lookups = [c \in Clients |-> NoLookups]
    /\ wg = [c \in Clients |-> 0]
    /\ listing = [c \in Clients |-> NoListing]
    /\ last = NoResponse
    /\ deleted = {}
    /\ walk = NoWalk

\* The response of the request completed last has been written out. The
\* program never reads last, so holding the other steps back until then
\* removes no behaviour of the table or of the requests in progress.
Delivered == last = NoResponse

\* Creates between their validation and their store call.
InFlight == Cardinality({c \in Clients : pc[c] = "wait"})

\* ------------------------------------------------------------- Create
\* PersonService.Create up to the start of the three goroutines: the
\* validation, then wg.Add(3) and the three go statements.
ServiceCreateEnter(c, p, entry) ==
    IF CreateValidationFails(p)
    THEN /\ last' = [NoResponse EXCEPT
                        !.op = "create", !.via = entry,
                        !.status = IF entry = "http" THEN 500 ELSE 0,
                        !.called = TRUE, !.svcErr = ErrValidation, !.record = p]
         /\ UNCHANGED <<people, nextId, now, pc, via, person, lookups, wg, deleted, listing, walk>>
    ELSE /\ nextId + InFlight <= MaxId
         /\ pc' = [pc EXCEPT ![c] = "wait"]
         /\ via' = [via EXCEPT ![c] = entry]
         /\ person' = [person EXCEPT ![c] = p]
         /\ wg' = [wg EXCEPT ![c] = 3]
         /\ lookups' = [lookups EXCEPT ![c] = StartedLookups]
         /\ UNCHANGED <<people, nextId, now, last, deleted, listing, walk>>

\* PersonHandler.CreatePerson up to its call of the service.
HandlerCreatePerson(c) ==
    /\ Delivered
    /\ pc[c] = "idle"
    /\ \E body \in CreateBodies :
         IF ~BindCreate(body)
         THEN /\ last' = [NoResponse EXCEPT !.op = "create", !.status = 400]
              /\ UNCHANGED <<people, nextId, now, pc, via, person, lookups, wg, deleted, listing, walk>>
         ELSE ServiceCreateEnter(
                  c,
                  [ZeroPerson EXCEPT
                      !.Name = body.name, !.Surname = body.surname,
                      !.Patronymic = IF body.patronymic # "" THEN Ptr(body.patronymic)
                                     ELSE NilStr],
                  "http")

\* A caller of PersonServiceInterface.Create other than the boundary: the
\* record is as the boundary builds it, but name and surname are unchecked.
CallServiceCreate(c) ==
    /\ Delivered
    /\ pc[c] = "idle"
    /\ \E n \in {"", "Anna"}, s \in {"", "Lee"} :
         ServiceCreateEnter(c, [ZeroPerson EXCEPT !.Name = n, !.Surname = s], "direct")

\* Variant of WgDone: the counter is decremented on the path of a lookup
\* that succeeded only.
WgDoneOnSuccess(n, r) == IF r.err = Nil THEN n - 1 ELSE n

\* defer wg.Done() of a goroutine whose lookup returned r: the counter after
\* the goroutine returned, on whichever path.
WgDone(n, r) == n - 1

\* What each goroutine does with the result r of its lookup.
MergeAge(p, r) == IF r.err = Nil THEN [p EXCEPT !.Age = r.val] ELSE p

\* Variant of MergeGender: the goroutine writes the field of another one.
MergeGenderIntoNationality(p, r) ==
    IF r.err = Nil THEN [p EXCEPT !.Nationality = r.val] ELSE p

MergeGender(p, r) == IF r.err = Nil THEN [p EXCEPT !.Gender = r.val] ELSE p

\* Variant of MergeNationality: the value is kept in a place all requests
\* share, and a request whose lookup failed takes what is there.
MergeNationalityShared(p, r) ==
    IF r.err = Nil THEN [p EXCEPT !.Nationality = r.val]
    ELSE IF \E d \in DOMAIN person : person[d].Nationality # ""
         THEN [p EXCEPT !.Nationality =
                  person[CHOOSE d \in DOMAIN person :
                             person[d].Nationality # ""].Nationality]
         ELSE p

MergeNationality(p, r) ==
    IF r.err = Nil THEN [p EXCEPT !.Nationality = r.val] ELSE p

\* The first goroutine: GetAge, the write of person.Age, wg.Done().
AgeTask(c) ==
    /\ Delivered
    /\ pc[c] = "wait"
    /\ lookups[c].age.st = "running"
    /\ \E h \in AgifyReplies :
         LET r == GetAge(h)
         IN /\ person' = [person EXCEPT ![c] = MergeAge(@, r)]
            /\ lookups' = [lookups EXCEPT
                  ![c].age = [st |-> "done", ok |-> r.err = Nil, val |-> r.val,
                             gets |-> @.gets + r.gets]]
            /\ wg' = [wg EXCEPT ![c] = WgDone(@, r)]
    /\ UNCHANGED <<people, nextId, now, pc, via, last, deleted, listing, walk>>

\* The second goroutine: GetGender, the write of person.Gender, wg.Done().
GenderTask(c) ==
    /\ Delivered
    /\ pc[c] = "wait"
    /\ lookups[c].gender.st = "running"
    /\ \E h \in GenderizeReplies :
         LET r == GetGender(h)
         IN /\ person' = [person EXCEPT ![c] = MergeGender(@, r)]
            /\ lookups' = [lookups EXCEPT
                  ![c].gender = [st |-> "done", ok |-> r.err = Nil, val |-> r.val,
                             gets |-> @.gets + r.gets]]
            /\ wg' = [wg EXCEPT ![c] = WgDone(@, r)]
    /\ UNCHANGED <<people, nextId, now, pc, via, last, deleted, listing, walk>>

\* The third goroutine: GetNationality, the write of person.Nationality,
\* wg.Done().
NationalityTask(c) ==
    /\ Delivered
    /\ pc[c] = "wait"
    /\ lookups[c].nationality.st = "running"
    /\ \E h \in NationalizeReplies :
         LET r == GetNationality(h)
         IN /\ person' = [person EXCEPT ![c] = MergeNationality(@, r)]
            /\ lookups' = [lookups EXCEPT
                  ![c].nationality = [st |-> "done", ok |-> r.err = Nil, val |-> r.val,
                             gets |-> @.gets + r.gets]]
            /\ wg' = [wg EXCEPT ![c] = WgDone(@, r)]
    /\ UNCHANGED <<people, nextId, now, pc, via, last, deleted, listing, walk>>

\* Variant of WgWait: the call returns without waiting.
WgWaitNoBarrier(c) == TRUE

\* wg.Wait() returns when the counter is zero.
WgWait(c) == wg[c] = 0

\* PersonService.Create from wg.Wait() on, and for a request of the boundary
\* the rest of PersonHandler.CreatePerson: 500, or person.ID = id and 201.
ServiceCreateJoin(c) ==
    /\ Delivered
    /\ pc[c] = "wait"
    /\ WgWait(c)
    /\ \E fail \in BOOLEAN, t \in {now, now + 1} :
         LET r == ServiceCreateStore(people, nextId, t, person[c], fail)
             returned == IF via[c] = "http" /\ r.err = Nil
                         THEN [person[c] EXCEPT !.ID = r.id] ELSE person[c]
         IN /\ t <= MaxClock
            /\ now' = t
            /\ people' = r.people
            /\ nextId' = r.nextId
            /\ last' = [NoResponse EXCEPT
                  !.op = "create", !.via = via[c],
                  !.status = IF via[c] # "http" THEN 0
                             ELSE IF r.err # Nil THEN 500 ELSE 201,
                  !.body = IF via[c] = "http" /\ r.err = Nil THEN returned
                           ELSE ZeroPerson,
                  !.called = TRUE, !.svcId = r.id, !.svcErr = r.err,
                  !.record = returned, !.lookups = lookups[c],
                  !.storeCalls = r.calls]
    /\ pc' = [pc EXCEPT ![c] = "idle"]
    /\ via' = [via EXCEPT ![c] = "http"]
    /\ person' = [person EXCEPT ![c] = ZeroPerson]
    /\ lookups' = [lookups EXCEPT ![c] = NoLookups]
    /\ wg' = [wg EXCEPT ![c] = 0]
    /\ UNCHANGED <<deleted, listing, walk>>

\* ------------------------------------------------------------- Get, Update, Delete
\* The status PersonHandler.GetPerson, Update and Delete answer with for the
\* error the service returned; ok is the status of success.
StatusOf(err, ok) ==
    IF err = Nil THEN ok
    ELSE IF ErrorsIs(err, ErrNotFound) THEN 404
    ELSE 500

\* PersonHandler.GetPerson: one SELECT, so one step.
HandlerGetPerson(c) ==
    /\ Delivered
    /\ pc[c] = "idle"
    /\ \E param \in IdParams, fail \in BOOLEAN :
         LET parsed == ParseInt(param)
             r == ServiceGetById(people, parsed.v, fail)
         IN last' =
              IF parsed.err # Nil
              THEN [NoResponse EXCEPT !.op = "get", !.status = 400]
              ELSE [NoResponse EXCEPT
                      !.op = "get", !.id = parsed.v, !.status = StatusOf(r.err, 200),
                      !.body = r.person, !.called = TRUE, !.svcErr = r.err,
                      !.record = r.person, !.storeCalls = r.calls]
    /\ UNCHANGED <<people, nextId, now, pc, via, person, lookups, wg, deleted, listing, walk>>

\* Variant of PersonOfUpdate: the patronymic is always a pointer to the text
\* of the request.
PersonOfUpdateAlwaysPointer(body) ==
    [ZeroPerson EXCEPT
        !.Name = body.name, !.Surname = body.surname,
        !.Patronymic = Ptr(body.patronymic),
        !.Age = body.age, !.Gender = body.gender, !.Nationality = body.nationality]

\* The Person PersonHandler.Update builds from an UpdatePersonRequest.
PersonOfUpdate(body) ==
    [ZeroPerson EXCEPT
        !.Name = body.name, !.Surname = body.surname,
        !.Patronymic = IF body.patronymic # "" THEN Ptr(body.patronymic) ELSE NilStr,
        !.Age = body.age, !.Gender = body.gender, !.Nationality = body.nationality]

\* PersonHandler.Update: one UPDATE, so one step. No key of
\* UpdatePersonRequest is required: binding fails on malformed text only.
HandlerUpdate(c) ==
    /\ Delivered
    /\ pc[c] = "idle"
    /\ \E param \in IdParams, body \in UpdateBodies, wellformed \in BOOLEAN,
          fail \in BOOLEAN :
         LET parsed == ParseInt(param)
             p == PersonOfUpdate(body)
             r == ServiceUpdate(people, parsed.v, p, fail)
         IN IF parsed.err # Nil \/ ~wellformed
            THEN /\ last' = [NoResponse EXCEPT
                               !.op = "update", !.id = parsed.v, !.status = 400]
                 /\ people' = people
            ELSE /\ last' = [NoResponse EXCEPT
                               !.op = "update", !.id = parsed.v,
                               !.status = StatusOf(r.err, 200),
                               !.body = IF r.err = Nil THEN p ELSE ZeroPerson,
                               !.called = TRUE, !.svcErr = r.err,
                               !.record = IF r.err = Nil THEN p ELSE ZeroPerson,
                               !.storeCalls = r.calls]
                 /\ people' = r.people
    /\ UNCHANGED <<nextId, now, pc, via, person, lookups, wg, deleted, listing, walk>>

\* PersonHandler.Delete: one DELETE, so one step.
HandlerDelete(c) ==
    /\ Delivered
    /\ pc[c] = "idle"
    /\ \E param \in IdParams, fail \in BOOLEAN :
         LET parsed == ParseInt(param)
             r == ServiceDelete(people, parsed.v, fail)
         IN IF parsed.err # Nil
            THEN /\ last' = [NoResponse EXCEPT !.op = "delete", !.status = 400]
                 /\ UNCHANGED <<people, deleted>>
            ELSE /\ last' = [NoResponse EXCEPT
                               !.op = "delete", !.id = parsed.v,
                               !.status = StatusOf(r.err, 204),
                               !.called = TRUE, !.svcErr = r.err,
                               !.storeCalls = r.calls]
                 /\ people' = r.people
                 /\ deleted' = IF r.err = Nil THEN deleted \cup {parsed.v} ELSE deleted
    /\ UNCHANGED <<nextId, now, pc, via, person, lookups, wg, listing, walk>>

\* ------------------------------------------------------------- GetAll
\* PersonService.GetAll and PersonRepository.GetAll up to and with the count
\* query, for the filters, page and pageSize the service is called with.
ServiceGetAllEnter(c, filters, page, pageSize, entry) ==
    \E fail \in BOOLEAN :
       LET w == ServiceGetAllWindow(page, pageSize)
           q == RepoGetAllBuild(filters, w.limit, w.offset)
           cnt == RepoGetAllCount(people, q, fail)
           l == [via |-> entry, page |-> page, pageSize |-> pageSize,
                 filters |-> filters, window |-> w, query |-> q,
                 total |-> cnt.total,
                 counted |-> IF cnt.err = Nil
                             THEN {id \in DOMAIN people :
                                      RowMatches(people[id], q.countConditions,
                                                 q.countArgs)}
                             ELSE {}]
           r == ServiceGetAllResult([people |-> <<>>, total |-> 0, err |-> cnt.err])
       IN IF cnt.err # Nil
          THEN /\ last' = [NoResponse EXCEPT
                              !.op = "list", !.via = entry,
                              !.status = IF entry = "http" THEN 500 ELSE 0,
                              !.called = TRUE, !.svcErr = r.err, !.storeCalls = 1,
                              !.list = [given |-> l, repoData |-> <<>>,
                                        repoTotal |-> cnt.total,
                                        data |-> r.people,
                                        total |-> r.total, page |-> 0,
                                        pageSize |-> 0, failed |-> "count"]]
               /\ UNCHANGED <<pc, listing>>
          ELSE /\ pc' = [pc EXCEPT ![c] = "select"]
               /\ listing' = [listing EXCEPT ![c] = l]
               /\ last' = last

\* PersonHandler.GetAll up to its call of the service, for one query.
HandlerGetAll(c, query) ==
    /\ Delivered
    /\ pc[c] = "idle"
    /\ IF HandlerAgeInvalid(query.filter)
       THEN /\ last' = [NoResponse EXCEPT !.op = "list", !.status = 400]
            /\ UNCHANGED <<pc, listing>>
       ELSE ServiceGetAllEnter(c, HandlerFilters(query.filter),
                               HandlerPage(query.page),
                               HandlerPageSize(query.pageSize), "http")
    /\ UNCHANGED <<people, nextId, now, via, person, lookups, wg, deleted, walk>>

\* A caller of PersonServiceInterface.GetAll other than the boundary.
CallServiceGetAll(c, call) ==
    /\ Delivered
    /\ pc[c] = "idle"
    /\ ServiceGetAllEnter(c, call.filters, call.page, call.pageSize, "direct")
    /\ UNCHANGED <<people, nextId, now, via, person, lookups, wg, deleted, walk>>

\* PersonRepository.GetAll from the selection query on, the return of
\* PersonService.GetAll, and for a request of the boundary the response of
\* PersonHandler.GetAll.
GetAllSelect(c) ==
    /\ Delivered
    /\ pc[c] = "select"
    /\ \E fail \in SelectFailures,
          order \in OrdersByCreatedAtDesc(people, Selected(people, listing[c].query)) :
         LET l == listing[c]
             sel == RepoGetAllSelect(people, l.query, l.total, order, fail)
             r == ServiceGetAllResult(sel)
         IN /\ last' = [NoResponse EXCEPT
                        !.op = "list", !.via = l.via,
                        !.status = IF l.via # "http" THEN 0
                                   ELSE IF r.err # Nil THEN 500 ELSE 200,
                        !.called = TRUE, !.svcErr = r.err, !.storeCalls = 1,
                        !.list = [given |-> l, repoData |-> sel.people,
                                  repoTotal |-> sel.total,
                                  data |-> r.people, total |-> r.total,
                                  page |-> IF l.via = "http" /\ r.err = Nil
                                           THEN l.page ELSE 0,
                                  pageSize |-> IF l.via = "http" /\ r.err = Nil
                                               THEN l.pageSize ELSE 0,
                                  failed |-> IF sel.err = Nil THEN "none"
                                             ELSE "select"]]
            /\ walk' = IF walk.active /\ r.err = Nil
                        THEN [walk EXCEPT
                                !.pages = Append(@, [i \in 1..Len(r.people) |->
                                                       r.people[i].ID]),
                                !.done = r.people = <<>>]
                        ELSE walk
    /\ pc' = [pc EXCEPT ![c] = "idle"]
    /\ listing' = [listing EXCEPT ![c] = NoListing]
    /\ UNCHANGED <<people, nextId, now, via, person, lookups, wg, deleted>>

\* The response is written out and the connection is done.
Respond ==
    /\ ~Delivered
    /\ last' = NoResponse
    /\ UNCHANGED <<people, nextId, now, pc, via, person, lookups, wg, deleted, listing, walk>>

\* ------------------------------------------------------------- specifications
\* Requests enter through the HTTP boundary only.
Next ==
    \/ \E c \in Clients :
         \/ HandlerCreatePerson(c)
         \/ AgeTask(c)
         \/ GenderTask(c)
         \/ NationalityTask(c)
         \/ ServiceCreateJoin(c)
         \/ HandlerGetPerson(c)
         \/ HandlerUpdate(c)
         \/ HandlerDelete(c)
    \/ Respond

Spec == Init /\ [][Next]_vars

\* PersonServiceInterface.Create is also called directly.
NextService ==
    \/ Next
    \/ \E c \in Clients : CallServiceCreate(c)

SpecService == Init /\ [][NextService]_vars

\* Creates only, with the scheduling the program has. A goroutine that is
\* runnable is run, a lookup returns (the http.Client has a timeout of 5 s),
\* the INSERT returns and a response is written out. A step of a Create waits
\* here while the response of another request is being written out, which is
\* no waiting of the program, so its fairness is the strong one: it is taken
\* if it can be taken again and again.
NextCreate ==
    \/ \E c \in Clients :
         \/ HandlerCreatePerson(c)
         \/ CallServiceCreate(c)
         \/ AgeTask(c)
         \/ GenderTask(c)
         \/ NationalityTask(c)
         \/ ServiceCreateJoin(c)
    \/ Respond

\* A step of the Create in progress of client c: one of its goroutines
\* returns, or wg.Wait() returns and the store is called.
CreateStep(c) ==
    AgeTask(c) \/ GenderTask(c) \/ NationalityTask(c) \/ ServiceCreateJoin(c)

CreateFairness ==
    /\ WF_vars(Respond)
    /\ \A c \in Clients : SF_vars(CreateStep(c))

SpecCreate == Init /\ [][NextCreate]_vars /\ CreateFairness

\* List requests on a table nobody writes. The table is one that Creates and
\* Updates leave behind: its rows are records they store, each inserted no
\* earlier than the rows of lower id, at the first or the last instant of the
\* clock, so that rows with equal and with different created_at both occur.
ListPersons ==
    {[ZeroPerson EXCEPT !.Name = "Anna", !.Surname = "Lee",
                        !.Patronymic = Ptr("Ivanovna"), !.Age = 30,
                        !.Gender = "male", !.Nationality = "US"],
     [ZeroPerson EXCEPT !.Name = "Boris", !.Surname = "Orlov", !.Gender = "male"],
     PersonOfUpdate(FullUpdate)}

ListTables ==
    UNION {{t \in [1..n -> {BoundColumns(p, ts) : p \in ListPersons, ts \in {1, MaxClock}}] :
               \A i, j \in 1..n : i < j => t[i].created_at <= t[j].created_at} :
           n \in 0..MaxRows}

InitList ==
    /\ people \in ListTables
    /\ nextId = Len(people) + 1
    /\ now = IF people = <<>> THEN 1 ELSE people[Len(people)].created_at
    /\ pc = [c \in Clients |-> "idle"]
    /\ via = [c \in Clients |-> "http"]
    /\ person = [c \in Clients |-> ZeroPerson]
    /\ lookups = [c \in Clients |-> NoLookups]
    /\ wg = [c \in Clients |-> 0]
    /\ listing = [c \in Clients |-> NoListing]
    /\ last = NoResponse
    /\ deleted = {}
    /\ walk = NoWalk

\* The client that lists: list requests do not affect one another.
Lister == CHOOSE c \in Clients : TRUE

NextList ==
    \/ \E query \in ListQueries : HandlerGetAll(Lister, query)
    \/ \E call \in ServiceListCalls : CallServiceGetAll(Lister, call)
    \/ GetAllSelect(Lister)
    \/ Respond

SpecList == InitList /\ [][NextList]_vars

\* List requests of one client while the other clients create records. The
\* list requests are of the first page, with and without a filter and a page
\* size.
WriterQueries ==
    {[page |-> NotGiven, pageSize |-> ps, filter |-> f] :
        ps \in {NotGiven, Number(1)},
        f \in {NoFilter, [NoFilter EXCEPT !.name = "an"]}}

NextListWrite ==
    \/ \E query \in WriterQueries : HandlerGetAll(Lister, query)
    \/ GetAllSelect(Lister)
    \/ \E c \in Clients \ {Lister} :
         \/ HandlerCreatePerson(c)
         \/ AgeTask(c)
         \/ GenderTask(c)
         \/ NationalityTask(c)
         \/ ServiceCreateJoin(c)
    \/ Respond

SpecListWrite == Init /\ [][NextListWrite]_vars

\* One client walks through the pages of a table nobody writes: it asks
\* for the page after the ones it got, with the filter and page_size of the
\* walk, until a page comes back empty.
WalkFilters == {NoFilter, [NoFilter EXCEPT !.gender = "male"]}
WalkPageSizes == {Number(1), Number(2)}

InitWalk ==
    /\ people \in ListTables
    /\ nextId = Len(people) + 1
    /\ now = IF people = <<>> THEN 1 ELSE people[Len(people)].created_at
    /\ pc = [c \in Clients |-> "idle"]
    /\ via = [c \in Clients |-> "http"]
    /\ person = [c \in Clients |-> ZeroPerson]
    /\ lookups = [c \in Clients |-> NoLookups]
    /\ wg = [c \in Clients |-> 0]
    /\ listing = [c \in Clients |-> NoListing]
    /\ last = NoResponse
    /\ deleted = {}
    /\ walk \in {[NoWalk EXCEPT !.active = TRUE, !.filter = f, !.pageSize = ps] :
                    f \in WalkFilters, ps \in WalkPageSizes}

\* The request for the next page of the walk.
WalkNext ==
    /\ walk.active /\ ~walk.done
    /\ Len(walk.pages) <= MaxRows
    /\ HandlerGetAll(Lister, [page |-> Number(Len(walk.pages) + 1),
                              pageSize |-> walk.pageSize, filter |-> walk.filter])

NextWalk ==
    \/ WalkNext
    \/ GetAllSelect(Lister)
    \/ Respond

SpecWalk == InitWalk /\ [][NextWalk]_vars

\* ------------------------------------------------------------- properties
\* The request completed last is a Create that got past its validation, so
\* its lookups ran and the store was called.
CreateReachedStore ==
    /\ last.op = "create"
    /\ last.called
    /\ last.svcErr # ErrValidation

AllLookupsDone(l) ==
    l.age.st = "done" /\ l.gender.st = "done" /\ l.nationality.st = "done"

AllLookupsFailed(l) ==
    AllLookupsDone(l) /\ ~l.age.ok /\ ~l.gender.ok /\ ~l.nationality.ok

\* The step completes a request of kind op whose service method ran.
Completes(op) == last = NoResponse /\ last'.op = op /\ last'.called

\* The store could not be reached for the request completed by the step.
Unreachable(err) == ErrorsIs(err, ErrConn)

\* C1: when all three lookups of a Create with name and surname fail and the
\* database is reachable, the Create succeeds: an id is returned and the row
\* with that id has age 0, gender "" and nationality "".
C1_AllLookupsFailCreateSucceeds ==
    (CreateReachedStore /\ AllLookupsFailed(last.lookups)
        /\ ~Unreachable(last.svcErr))
    => /\ last.svcErr = Nil
       /\ last.svcId > 0
       /\ last.svcId \in DOMAIN people
       /\ people[last.svcId].age = 0
       /\ people[last.svcId].gender = ""
       /\ people[last.svcId].nationality = ""

\* C2: the store's Create is called only when all three lookup goroutines
\* have finished; until then the counter of the WaitGroup is the number of
\* goroutines still running.
C2_StoreCalledAfterAllTasks ==
    /\ CreateReachedStore => AllLookupsDone(last.lookups)
    /\ \A c \in Clients :
         pc[c] = "wait" =>
           wg[c] = Cardinality({f \in {"age", "gender", "nationality"} :
                                   lookups[c][f].st = "running"})

C2_Witness ==
    /\ CreateReachedStore
    /\ AllLookupsDone(last.lookups)
    /\ last.lookups.age.ok /\ ~last.lookups.nationality.ok

\* C3: the record a Create hands to the store has, field by field, the
\* result of the lookup that succeeded and the zero value for the lookup that
\* failed, whatever the other two lookups did and in whatever order they
\* finished.
C3_MergedRecordPerField ==
    CreateReachedStore =>
      /\ last.record.Age =
           IF last.lookups.age.ok THEN last.lookups.age.val ELSE 0
      /\ last.record.Gender =
           IF last.lookups.gender.ok THEN last.lookups.gender.val ELSE ""
      /\ last.record.Nationality =
           IF last.lookups.nationality.ok THEN last.lookups.nationality.val ELSE ""
      /\ last.record.Name # "" /\ last.record.Surname # ""

C3_Witness ==
    /\ CreateReachedStore
    /\ AllLookupsDone(last.lookups)
    /\ last.lookups.age.ok /\ last.record.Age = 30
    /\ ~last.lookups.gender.ok /\ last.record.Gender = ""
    /\ last.lookups.nationality.ok /\ last.record.Nationality = "US"

\* C4: a service Create given an empty name or an empty surname returns the
\* validation error and id 0 at once: no lookup is started, the store is not
\* called, and the table and its id sequence are as before. No Create with
\* an empty name or surname ever gets to its lookups.
C4_ValidationBeforeSideEffects ==
    [][/\ \A c \in Clients :
            pc'[c] = "wait" => person'[c].Name # "" /\ person'[c].Surname # ""
       /\ (Completes("create")
             /\ (last'.record.Name = "" \/ last'.record.Surname = ""))
          => /\ last'.svcErr = ErrValidation
             /\ last'.svcId = 0
             /\ last'.lookups = NoLookups
             /\ UNCHANGED <<people, nextId, now, pc, person, lookups, wg>>]_vars

C4_Witness ==
    /\ last.op = "create" /\ last.via = "direct" /\ last.called
    /\ last.record.Name = "Anna" /\ last.record.Surname = ""
    /\ last.svcErr = ErrValidation
    /\ last.lookups = NoLookups
    /\ people = <<>> /\ nextId = 1

\* C5: when GetById, Update or Delete targets an id with no live record and
\* the database is reachable, the service returns the store's not-found
\* error itself and the boundary answers 404; every other error the service
\* returns is a wrapped one that is not not-found, and the boundary answers
\* 500.
C5_NotFoundPropagates ==
    [][\A op \in {"get", "update", "delete"} :
         Completes(op) =>
           /\ (last'.id \notin DOMAIN people /\ ~Unreachable(last'.svcErr))
              => last'.svcErr = ErrNotFound /\ last'.status = 404
           /\ (last'.svcErr # Nil /\ last'.svcErr # ErrNotFound)
              => /\ Len(last'.svcErr) > 1
                 /\ \A i \in 1..Len(last'.svcErr) : last'.svcErr[i] # ErrNotFound[1]
                 /\ last'.status = 500
           /\ last'.status = 404 => last'.id \notin DOMAIN people]_vars

C5_Witness ==
    /\ last.op = "update" /\ last.called
    /\ last.id \notin DOMAIN people
    /\ last.svcErr = ErrNotFound /\ last.status = 404
    /\ people # <<>>

\* C6: every stored record has a non-empty name and a non-empty surname.
C6_NamesAlwaysPresent ==
    \A id \in DOMAIN people : people[id].name # "" /\ people[id].surname # ""

\* C7: a successful Delete removes the row of its id; a removed id never has
\* a row again; with the database reachable, a GetById of a removed id
\* returns not-found, and a Delete of an id without a row (a removed id
\* included) returns not-found and leaves the table as it is.
C7_DeletedStaysNotFound ==
    [][/\ (Completes("delete") /\ last'.status = 204)
          => /\ last'.id \in DOMAIN people
             /\ last'.id \notin DOMAIN people'
             /\ people' = [i \in DOMAIN people \ {last'.id} |-> people[i]]
             /\ last'.id \in deleted'
       /\ \A i \in deleted' : i \notin DOMAIN people'
       /\ (Completes("get") /\ last'.id \in deleted /\ ~Unreachable(last'.svcErr))
          => last'.svcErr = ErrNotFound /\ last'.status = 404
       /\ (Completes("delete") /\ last'.id \notin DOMAIN people)
          => /\ people' = people
             /\ ~Unreachable(last'.svcErr)
                => last'.svcErr = ErrNotFound /\ last'.status = 404]_vars

C7_Witness ==
    /\ last.op = "get" /\ last.called
    /\ last.id \in deleted
    /\ last.status = 404

\* C8: an Update of an id without a row writes nothing, and with the
\* database reachable it returns not-found.
C8_UpdateMissingWritesNothing ==
    [][(Completes("update") /\ last'.id \notin DOMAIN people)
       => /\ people' = people
          /\ nextId' = nextId
          /\ ~Unreachable(last'.svcErr)
             => last'.svcErr = ErrNotFound /\ last'.status = 404]_vars

C8_Witness ==
    /\ last.op = "update" /\ last.called
    /\ last.id \notin DOMAIN people
    /\ last.status = 404
    /\ \E id \in DOMAIN people : people[id].name = "Anna"

\* C9: a successful Update leaves the row holding the supplied values, and
\* the record in the response is that row as GetById reads it, id and
\* created_at included.
C9_UpdateReturnsStoredState ==
    (last.op = "update" /\ last.status = 200)
    => /\ last.id \in DOMAIN people
       /\ people[last.id] = BoundColumns(last.record, people[last.id].created_at)
       /\ last.body = ServiceGetById(people, last.id, FALSE).person

\* C10: right after a successful Create, GetById of the returned id succeeds
\* with the name, surname, patronymic, age, gender and nationality of the
\* record the Create returned, and with that id and a created_at that are
\* not zero.
C10_CreateGetRoundTrip ==
    (last.op = "create" /\ last.via = "http" /\ last.status = 201)
    => LET g == ServiceGetById(people, last.body.ID, FALSE)
       IN /\ g.err = Nil
          /\ g.person.Name = last.body.Name
          /\ g.person.Surname = last.body.Surname
          /\ g.person.Patronymic = last.body.Patronymic
          /\ g.person.Age = last.body.Age
          /\ g.person.Gender = last.body.Gender
          /\ g.person.Nationality = last.body.Nationality
          /\ g.person.ID = last.body.ID /\ g.person.ID # 0
          /\ g.person.CreatedAt # 0

C10_Witness ==
    /\ last.op = "create" /\ last.via = "http" /\ last.status = 201
    /\ last.body.Patronymic = Ptr("Ivanovna")
    /\ last.body.Age = 30 /\ last.body.Nationality = "US"
    /\ last.body.ID \in DOMAIN people

\* The ids successful Creates have returned so far: each is the id of a live
\* row or of a row a Delete removed.
Issued == DOMAIN people \cup deleted

LookupNames == {"age", "gender", "nationality"}

\* C11: a successful Create returns an id that no earlier Create returned,
\* the id of a deleted record included, and stores its row under that id
\* without touching any row already there; every id issued so far is below
\* the next value of the sequence.
C11_IdsNeverReissued ==
    [][/\ (Completes("create") /\ last'.svcErr = Nil)
          => /\ last'.svcId # 0
             /\ last'.svcId \notin Issued
             /\ last'.svcId \in DOMAIN people'
             /\ DOMAIN people' = DOMAIN people \cup {last'.svcId}
             /\ \A i \in DOMAIN people : people'[i] = people[i]
       /\ \A i \in Issued : i < nextId
       /\ nextId' >= nextId]_vars

C11_Witness ==
    /\ last.op = "create" /\ last.svcErr = Nil /\ last.called
    /\ last.svcId = 2
    /\ 1 \in deleted
    /\ DOMAIN people = {2}

\* C18: a Create that passes its validation issues one outbound request per
\* lookup, whether the lookup succeeds or fails, and calls the store once;
\* GetById, Update and Delete call the store once; a call of the store that
\* failed has changed no row.
C18_NoRetries ==
    [][/\ \A c \in Clients : \A f \in LookupNames :
            lookups'[c][f].gets = IF lookups'[c][f].st = "done" THEN 1 ELSE 0
       /\ (Completes("create") /\ last'.svcErr # ErrValidation)
          => /\ last'.storeCalls = 1
             /\ \A f \in LookupNames : last'.lookups[f].gets = 1
       /\ (Completes("create") /\ last'.svcErr = ErrValidation)
          => last'.storeCalls = 0
       /\ \A op \in {"get", "update", "delete"} :
            Completes(op) => last'.storeCalls = 1
       /\ (last = NoResponse /\ last'.called /\ last'.svcErr # Nil)
          => people' = people]_vars

C18_Witness ==
    /\ CreateReachedStore
    /\ last.svcErr # Nil
    /\ ~last.lookups.age.ok /\ last.lookups.age.gets = 1
    /\ last.lookups.nationality.ok /\ last.lookups.nationality.gets = 1
    /\ last.storeCalls = 1

\* C19: while two Creates are in progress, the record of each keeps the
\* name, surname and patronymic of its own request and its age, gender and
\* nationality are the results of its own lookups; the store call of each
\* adds the row of its own record under an id no other record has or had,
\* and changes no other row.
C19_ConcurrentCreatesIndependent ==
    [][\A c \in Clients :
         /\ (pc[c] = "wait" /\ pc'[c] = "wait")
            => /\ person'[c].Name = person[c].Name
               /\ person'[c].Surname = person[c].Surname
               /\ person'[c].Patronymic = person[c].Patronymic
               /\ person'[c].Age =
                    IF lookups'[c].age.ok THEN lookups'[c].age.val ELSE 0
               /\ person'[c].Gender =
                    IF lookups'[c].gender.ok THEN lookups'[c].gender.val ELSE ""
               /\ person'[c].Nationality =
                    IF lookups'[c].nationality.ok
                    THEN lookups'[c].nationality.val ELSE ""
               /\ \A f \in LookupNames :
                    lookups'[c][f] # lookups[c][f]
                    => lookups[c][f].st = "running" /\ lookups'[c][f].st = "done"
         /\ (pc[c] = "wait" /\ pc'[c] = "idle")
            => /\ last'.op = "create"
               /\ last'.lookups = lookups[c]
               /\ IF last'.svcErr = Nil
                  THEN /\ last'.svcId \notin Issued
                       /\ people' =
                            [i \in DOMAIN people \cup {last'.svcId} |->
                               IF i = last'.svcId
                               THEN BoundColumns(person[c], now')
                               ELSE people[i]]
                  ELSE people' = people
               /\ \A d \in Clients \ {c} :
                    person'[d] = person[d] /\ lookups'[d] = lookups[d]]_vars

\* One Create has just stored its row while a second one, of another
\* person, is between its lookups; the two have different lookup results.
C19_Witness ==
    /\ last.op = "create" /\ last.svcErr = Nil /\ last.called
    /\ last.record.Name = "Anna" /\ last.record.Nationality = "US"
    /\ \E d \in Clients :
         /\ pc[d] = "wait"
         /\ person[d].Name = "Boris"
         /\ lookups[d].nationality.st = "done" /\ ~lookups[d].nationality.ok
         /\ lookups[d].age.st = "running"

ListReturned == last.op = "list" /\ last.called
ListSucceeded == ListReturned /\ last.svcErr = Nil

\* C12: on a table nobody writes, a GetAll that succeeds returns no more
\* records than the page size in effect, each a stored record the filters
\* keep and none twice, newest created first, and a total that is the number
\* of all stored records the filters keep, whatever the page and the page
\* size.
C12_PageAndTotal ==
    ListSucceeded
    => LET g == last.list.given
           data == last.list.data
       IN /\ Len(data) <= g.window.pageSize
          /\ g.pageSize >= 1 => Len(data) <= g.pageSize
          /\ \A i, j \in 1..Len(data) :
               i < j => /\ data[i].CreatedAt >= data[j].CreatedAt
                        /\ data[i].ID # data[j].ID
          /\ \A i \in 1..Len(data) :
               /\ data[i].ID \in Selected(people, g.query)
               /\ data[i] = RowToPerson(data[i].ID, people[data[i].ID])
          /\ last.list.total = Cardinality(Selected(people, g.query))
          /\ Len(data) =
               Cardinality({n \in 1..last.list.total :
                               n > g.window.offset
                               /\ n <= g.window.offset + g.window.limit})

\* Two records match the filter and the page size is 1: the page has the
\* newer one, the total is 2.
C12_Witness ==
    /\ ListSucceeded /\ last.via = "http"
    /\ "name" \in DOMAIN last.list.given.filters
    /\ last.list.pageSize = 1
    /\ Len(last.list.data) = 1
    /\ last.list.total = 2
    /\ \E id \in DOMAIN people :
         people[id].created_at < last.list.data[1].CreatedAt

\* text contains v as a substring, letters compared without regard to case.
ContainsFold(text, v) ==
    \E i \in 0..(Len(text) - Len(v)) :
       \A j \in 1..Len(v) :
          ToLowerChar(SubSeq(text, i + j, i + j)) = ToLowerChar(SubSeq(v, j, j))

\* The row satisfies every predicate of the filter set.
Satisfies(row, filters) ==
    \A k \in DOMAIN filters :
       IF k = "age" THEN row.age = filters[k].n
       ELSE IF k = "gender" THEN row.gender = filters[k].s
       ELSE IF k = "name" THEN ContainsFold(row.name, filters[k].s)
       ELSE IF k = "surname" THEN ContainsFold(row.surname, filters[k].s)
       ELSE ContainsFold(row.nationality, filters[k].s)

\* C13: a GetAll that succeeds counts exactly the stored records that
\* satisfy every predicate of its filter set, returns only such records, and
\* returns all of them when the window holds them all.
C13_FilterSemantics ==
    ListSucceeded
    => LET g == last.list.given
           data == last.list.data
           matching == {id \in DOMAIN people : Satisfies(people[id], g.filters)}
       IN /\ last.list.total = Cardinality(matching)
          /\ \A i \in 1..Len(data) : data[i].ID \in matching
          /\ (g.window.offset = 0 /\ g.window.limit >= Cardinality(matching))
             => {data[i].ID : i \in 1..Len(data)} = matching

\* C14: the service's GetAll uses page 1 for a page below 1 and page size 10
\* for a page size below 1, and calls the store with the filters it was
\* given, limit = pageSize and offset = (page - 1) * pageSize, which is never
\* negative.
C14_WindowNormalised ==
    ListReturned
    => LET g == last.list.given
           page == IF g.page < 1 THEN 1 ELSE g.page
           pageSize == IF g.pageSize < 1 THEN 10 ELSE g.pageSize
       IN /\ g.window.page = page
          /\ g.window.pageSize = pageSize
          /\ g.window.limit = pageSize
          /\ g.window.offset = (page - 1) * pageSize
          /\ g.window.offset >= 0
          /\ g.query.args[g.query.limitParam] = IntArg(g.window.limit)
          /\ g.query.args[g.query.offsetParam] = IntArg(g.window.offset)
          /\ Len(g.query.conditions) = Cardinality(DOMAIN g.filters)

\* C15: when the count query, the selection query or the scan of a GetAll
\* failed, the store and the service each return an error with no records
\* and total 0, also when the count query had already returned a total; a
\* GetAll that returns no error had no failure.
C15_NoPartialResult ==
    ListReturned
    => /\ last.svcErr # Nil
          => /\ last.list.repoData = <<>>
             /\ last.list.repoTotal = 0
             /\ last.list.data = <<>>
             /\ last.list.total = 0
             /\ last.list.failed \in {"count", "select"}
             /\ last.via = "http" => last.status = 500
       /\ last.svcErr = Nil => last.list.failed = "none"
       /\ last.list.failed # "none" => last.svcErr # Nil

\* The selection failed after the count query had counted two records.
C15_Witness ==
    /\ ListReturned
    /\ last.list.failed = "select"
    /\ last.list.given.total = 2
    /\ last.list.given.window.offset = 0
    /\ last.svcErr # Nil
    /\ last.list.data = <<>> /\ last.list.total = 0

\* C16: the count query and the selection query of a GetAll have the same
\* conditions, one per filter, the i-th with placeholder $i; the arguments of
\* the count query are the arguments of the selection query without its last
\* two, which are limit and offset.
C16_SamePredicates ==
    ListReturned
    => LET q == last.list.given.query
           n == Len(q.conditions)
       IN /\ q.countConditions = q.conditions
          /\ n = Cardinality(DOMAIN last.list.given.filters)
          /\ \A i \in 1..n : q.conditions[i].param = i
          /\ Len(q.countArgs) = n
          /\ Len(q.args) = n + 2
          /\ q.countArgs = SubSeq(q.args, 1, n)
          /\ q.limitParam = n + 1 /\ q.offsetParam = n + 2
          /\ q.args[n + 1] = IntArg(last.list.given.window.limit)
          /\ q.args[n + 2] = IntArg(last.list.given.window.offset)

\* All five filters are given: limit and offset are appended in place, into
\* the backing array the count arguments share.
C16_Witness ==
    /\ ListSucceeded
    /\ Len(last.list.given.query.countArgs) = 5
    /\ Len(last.list.given.query.args) = 7
    /\ last.list.total = 1

\* C17: no stored record has a patronymic that is present and empty, and
\* GetById and GetAll read the patronymic of every record as it is stored:
\* absent as absent, present as present.
C17_PatronymicAbsentOrNonEmpty ==
    /\ \A id \in DOMAIN people :
         /\ people[id].patronymic.valid => people[id].patronymic.str # ""
         /\ ServiceGetById(people, id, FALSE).person.Patronymic
              = people[id].patronymic
    /\ \A order \in OrdersByCreatedAtDesc(people, DOMAIN people) :
         LET sel == RepoGetAllSelect(
                        people,
                        RepoGetAllBuild(<<>>, paginationDefaultPageSize, 0),
                        Cardinality(DOMAIN people), order, "none")
         IN /\ Len(sel.people) = Cardinality(DOMAIN people)
            /\ \A i \in 1..Len(sel.people) :
                 sel.people[i].Patronymic = people[sel.people[i].ID].patronymic

\* An Update without patronymic has just made the patronymic of a record
\* absent, and another record has one.
C17_Witness ==
    /\ last.op = "update" /\ last.status = 200
    /\ last.id \in DOMAIN people
    /\ people[last.id].patronymic = NilStr
    /\ people[last.id].name = "Ivan"
    /\ \E id \in DOMAIN people : people[id].patronymic = Ptr("Ivanovna")

\* C21: no step changes the created_at of a row that stays in the table, and
\* every row is read under the id it was stored under; a successful Update
\* leaves the table with the same ids, the created_at of the row of its id as
\* it was, and every other row as it was.
C21_IdAndCreatedAtImmutable ==
    [][/\ \A i \in DOMAIN people \cap DOMAIN people' :
            /\ people'[i].created_at = people[i].created_at
            /\ ServiceGetById(people', i, FALSE).person.ID = i
            /\ ServiceGetById(people', i, FALSE).person.CreatedAt
                 = people[i].created_at
       /\ (Completes("update") /\ last'.svcErr = Nil)
          => /\ DOMAIN people' = DOMAIN people
             /\ last'.id \in DOMAIN people
             /\ people'[last'.id].created_at = people[last'.id].created_at
             /\ \A i \in DOMAIN people \ {last'.id} : people'[i] = people[i]]_vars

\* An Update has just rewritten the older of two records, after the clock
\* moved on: the record keeps its created_at, the other record is untouched.
C21_Witness ==
    /\ last.op = "update" /\ last.status = 200
    /\ last.id = 1
    /\ DOMAIN people = {1, 2}
    /\ people[1].name = "Ivan" /\ people[1].created_at = 1
    /\ people[2].name = "Anna" /\ people[2].created_at = 2
    /\ now = 2

\* The window and the query of a GetAll entered through the boundary use a
\* page of at least 1 and a limit from 1 to the maximum page size.
BoundaryWindow(l) ==
    /\ l.page >= 1
    /\ l.pageSize >= 1 /\ l.pageSize <= paginationMaxPageSize
    /\ l.window.page = l.page
    /\ l.window.pageSize = l.pageSize
    /\ l.window.limit >= 1 /\ l.window.limit <= paginationMaxPageSize
    /\ l.query.args[l.query.limitParam].typ = "int"
    /\ l.query.args[l.query.limitParam].n >= 1
    /\ l.query.args[l.query.limitParam].n <= paginationMaxPageSize

\* C22: for every list request of the boundary that reaches the service,
\* whatever its page and page_size values, the page used is at least 1 and
\* the limit of the selection query is from 1 to 100; the page and page size
\* of a response are the ones used.
C22_BoundaryPageAndLimit ==
    /\ \A c \in Clients :
         (pc[c] = "select" /\ listing[c].via = "http") => BoundaryWindow(listing[c])
    /\ (ListReturned /\ last.via = "http")
       => /\ BoundaryWindow(last.list.given)
          /\ last.status = 200
             => /\ last.list.page = last.list.given.window.page
                /\ last.list.pageSize = last.list.given.window.limit
                /\ Len(last.list.data) <= paginationMaxPageSize

\* A request with a page_size above the maximum was answered with the
\* maximum as its page size, on its first page.
C22_Witness ==
    /\ ListSucceeded /\ last.via = "http" /\ last.status = 200
    /\ last.list.pageSize = paginationMaxPageSize
    /\ last.list.page = paginationDefaultPage
    /\ last.list.given.query.args[last.list.given.query.limitParam]
         = IntArg(paginationMaxPageSize)
    /\ Len(last.list.data) = 2

\* C23: every Create that started its lookups returns: its three goroutines
\* finish, each signalling the WaitGroup whether its lookup succeeded or
\* failed, wg.Wait() returns and the store is called.
C23_CreateEventuallyReturns ==
    \A c \in Clients : (pc[c] = "wait") ~> (pc[c] = "idle" /\ wg[c] = 0)

\* A Create all of whose lookups failed has returned while another one has
\* its three goroutines running.
C23_Witness ==
    /\ CreateReachedStore
    /\ AllLookupsFailed(last.lookups)
    /\ \E d \in Clients : pc[d] = "wait" /\ wg[d] = 3

\* C24: the total a GetAll returns is the number of rows its count query
\* counted, and the records it returns are rows its selection query finds in
\* the table as it is when that query runs, one step later; a row the count
\* query counted is still in the table then. So a record stored between the
\* two queries is returned without being counted.
C24_CountThenSelect ==
    [][\A c \in Clients :
         /\ (pc[c] = "select" /\ pc'[c] = "idle" /\ last'.svcErr = Nil)
            => /\ last'.op = "list"
               /\ last'.list.given = listing[c]
               /\ last'.list.total = Cardinality(listing[c].counted)
               /\ \A i \in 1..Len(last'.list.data) :
                    /\ last'.list.data[i].ID \in Selected(people, listing[c].query)
                    /\ last'.list.data[i]
                         = RowToPerson(last'.list.data[i].ID,
                                       people[last'.list.data[i].ID])
               /\ people' = people
         /\ (pc[c] = "idle" /\ pc'[c] = "select")
            => /\ listing'[c].counted = Selected(people, listing'[c].query)
               /\ listing'[c].total = Cardinality(listing'[c].counted)
               /\ people' = people
         /\ (pc[c] = "select" /\ pc'[c] = "select")
            => /\ listing'[c] = listing[c]
               /\ listing[c].counted \subseteq DOMAIN people']_vars

\* A GetAll with a name filter returned total 0 and a page with one record
\* that matches the filter: the record was stored after the count query.
C24_Witness ==
    /\ ListSucceeded
    /\ "name" \in DOMAIN last.list.given.filters
    /\ last.list.total = 0
    /\ Len(last.list.data) = 1
    /\ last.list.data[1].ID \notin last.list.given.counted
    /\ last.list.data[1].ID \in Selected(people, last.list.given.query)

\* The pages of a walk one after the other.
RECURSIVE Concat(_)
Concat(pages) == IF pages = <<>> THEN <<>> ELSE Head(pages) \o Concat(Tail(pages))

\* C25: the pages 1, 2, 3, ... a client gets with one filter and one page
\* size from a table nobody writes have no record in common, hold matching
\* records only, newest created first from page to page, and once a page
\* came back empty they hold every matching record.
C25_PagesPartition ==
    walk.active
    => LET flat == Concat(walk.pages)
           matching ==
               Selected(people,
                        RepoGetAllBuild(HandlerFilters(walk.filter),
                                        HandlerPageSize(walk.pageSize), 0))
       IN /\ \A i, j \in 1..Len(flat) :
               i < j => /\ flat[i] # flat[j]
                        /\ people[flat[i]].created_at >= people[flat[j]].created_at
          /\ \A i \in 1..Len(flat) : flat[i] \in matching
          /\ walk.done => {flat[i] : i \in 1..Len(flat)} = matching

====
